---- MODULE Spec2Model ----
(***************************************************************************)
(* Model of src/data_processing_functions.py: the exploratory-data-analysis *)
(* helpers check_missing_values, check_outliers_column,                     *)
(* treat_missing_values_column_median, treat_outliers_column_median and     *)
(* create_frequency_table, acting on one pandas DataFrame df.               *)
(*                                                                         *)
(* Numbers.  A numeric cell holds an integer multiple of 1/Scale: the cell  *)
(* value x stands for the float x/Scale (Num(v) is the cell of the whole    *)
(* number v).  All inputs are whole numbers and every computation of the    *)
(* code on them (interpolated quartiles, medians, factor*IQR with factor a  *)
(* multiple of 1/2) yields dyadic rationals that floats represent exactly,  *)
(* so integer arithmetic on scaled values is the code's arithmetic.         *)
(* Quartiles are kept times 4 and bounds times 8 to stay integral.          *)
(* Percentages are kept in hundredths (4000 stands for 40.00).  A           *)
(* percentage is the float (count / total) * 100 rounded to 2 decimals:     *)
(* count / total is not a dyadic rational in general, so the rounding       *)
(* errors of the float operations are tracked where they decide the result  *)
(* (see "Float arithmetic of the percentages").                             *)
(***************************************************************************)
EXTENDS Integers, Sequences, FiniteSets, TLC

VARIABLES df,      \* the DataFrame: column name -> sequence of cells
          before,  \* the DataFrame as it was when the last call started
          last,    \* the last call: [op, column, factor2]
          prev,    \* the remediation call made right before the last call, if any
          out      \* what the last call printed and returned

vars == <<df, before, last, prev, out>>

(***************************************************************************)
(* Bounds of the model.                                                     *)
(***************************************************************************)
MaxRows == 4
MaxFreqValues == 24
MaxFreqExtra == 30

Scale == 2^4
Vals == {-1, 0, 1, 5}
Factors2 == {3, 6}

(***************************************************************************)
(* Data model.                                                              *)
(***************************************************************************)
NaN == -(2^30)

Num(v) == v * Scale

Columns == <<"A", "B">>

NumericColumns == {"A"}

LabelColumns == {"B"}

Factor15 == 3

NoCall == [op |-> "none", column |-> "", factor2 |-> 0]

Call(op, column, factor2) == [op |-> op, column |-> column, factor2 |-> factor2]

ColumnSet == {Columns[i] : i \in DOMAIN Columns}

\* what prev keeps of a call: the call if it is one of the two treatments
Remediation(call) ==
    IF call.op \in {"treat_missing_values_column_median", "treat_outliers_column_median"}
    THEN call ELSE NoCall

(***************************************************************************)
(* Library primitives, as the code uses them.                               *)
(***************************************************************************)
RECURSIVE InsertAsc(_, _)
InsertAsc(s, x) ==
    IF s = <<>> THEN <<x>>
    ELSE IF x < Head(s) THEN <<x>> \o s
    ELSE <<Head(s)>> \o InsertAsc(Tail(s), x)

RECURSIVE SortAsc(_)
SortAsc(s) ==
    IF s = <<>> THEN <<>> ELSE InsertAsc(SortAsc(Tail(s)), Head(s))

isnull(v) == v = NaN

dropna(col) == SelectSeq(col, LAMBDA v : ~isnull(v))

\* Series.quantile(k/4), times 4: linear interpolation between the two
\* order statistics around position (m-1)*k/4 of the non-null values.
quantile4(col, k) ==
    LET s == SortAsc(dropna(col))
        m == Len(s)
        pos == (m - 1) * k
        i == pos \div 4
        r == pos % 4
    IN  IF m = 0 THEN NaN
        ELSE IF r = 0 THEN 4 * s[i + 1]
        ELSE 4 * s[i + 1] + r * (s[i + 2] - s[i + 1])

\* Series.median(): the middle non-null value, or the mean of the two middle ones.
median(col) ==
    LET s == SortAsc(dropna(col))
        m == Len(s)
    IN  IF m = 0 THEN NaN
        ELSE (s[(m + 1) \div 2] + s[(m + 2) \div 2]) \div 2

\* Series.fillna(value): a NaN value fills nothing.
fillna(col, value) ==
    [i \in DOMAIN col |-> IF isnull(col[i]) /\ ~isnull(value) THEN value ELSE col[i]]

(***************************************************************************)
(* Float arithmetic of the percentages.  Both count / total and the         *)
(* products by 100 are IEEE double operations: each result is the exact     *)
(* result rounded to a 53-bit significand, ties to even.  The significands  *)
(* are followed through their low bits (all that the roundings look at) and *)
(* through the signed error of each rounding, which are small integers.     *)
(* For 0 < c <= n < 2^15.                                                   *)
(***************************************************************************)
\* the low bits of a significand that are kept
LowBits == 16

\* 1 when a quotient q with remainder r out of d rounds up (ties to even)
RoundUp(q, r, d) == IF 2 * r > d \/ (2 * r = d /\ q % 2 = 1) THEN 1 ELSE 0

\* least k with c * 2^k >= n: c/n lies in [2^-k, 2^(1-k))
Exponent(c, n) == CHOOSE k \in 0..LowBits : c * 2^k >= n /\ (k = 0 \/ c * 2^(k - 1) < n)

\* the double c / n = M * 2^-(52+k), M the quotient of c * 2^(52+k) by n
\* rounded to nearest: the low bits of M, and rho = c * 2^(52+k) - M * n, the
\* error of the rounding times n * 2^(52+k).  The long division is done 12
\* bits at a time on the remainders; its last 16 bits are the low bits.
float_divide(c, n) ==
    LET k == Exponent(c, n)
        r12 == (((c * 2^k) % n) * 2^12) % n
        r24 == (r12 * 2^12) % n
        r36 == (r24 * 2^12) % n
        q == (r36 * 2^LowBits) \div n
        r == (r36 * 2^LowBits) % n
        up == RoundUp(q, r, n)
    IN  [low |-> (q + up) % 2^LowBits, rho |-> r - up * n, k |-> k]

\* the double M * 100 for a significand M known by its `bits` low bits: the
\* product has 59 or 60 bits, so t = 6 or 7 bits are rounded away; the low
\* bits of the new significand M2 and rho = 100 * M - M2 * 2^t
float_times100(low, bits, t) ==
    LET p == (100 * low) % 2^bits
        q == p \div 2^t
        r == p % 2^t
        up == RoundUp(q, r, 2^t)
    IN  [low |-> (q + up) % 2^(bits - t), rho |-> r - up * 2^t]

\* the double (c / n) * 100: err is the exact 100*c/n minus the double, times
\* n * 2^(52+k).  The product 100 * M is below 2^59 when 100 * c/n * 2^k is
\* below 128.
float_percent(c, n) ==
    LET quotient == float_divide(c, n)
        a == 100 * c * 2^quotient.k
        b == 128 * n
        t == IF a < b \/ (a = b /\ quotient.rho > 0) THEN 6 ELSE 7
        product == float_times100(quotient.low, LowBits, t)
    IN  [low |-> product.low, bits |-> LowBits - t, t |-> t, k |-> quotient.k,
         err |-> 100 * quotient.rho + n * product.rho]

\* the double ((c / n) * 100) * 100 that numpy's round(2) feeds to rint: the
\* exact 10000*c/n minus that double, times n * 2^(52+k)
float_scaled_err(c, n) ==
    LET percent == float_percent(c, n)
        a == 10000 * c * 2^percent.k
        b == 2^(7 + percent.t) * n
        t == IF a < b \/ (a = b /\ percent.err > 0) THEN 6 ELSE 7
        scaled == float_times100(percent.low, percent.bits, t)
    IN  100 * percent.err + n * scaled.rho * 2^percent.t

\* 10000*c/n lies exactly half way between two hundredths
IsTie(c, n) == 2 * ((10000 * c) % n) = n

\* the hundredth nearest to a double that is the exact 10000*c/n minus an
\* error of the sign of err.  The error is below 2^-40, so it decides only
\* at an exact tie; a double equal to the tie goes to the even hundredth.
Nearest(c, n, err) ==
    LET q == (10000 * c) \div n
        r == (10000 * c) % n
    IN  IF 2 * r > n THEN q + 1
        ELSE IF 2 * r < n THEN q
        ELSE IF err > 0 THEN q
        ELSE IF err < 0 THEN q + 1
        ELSE q + (q % 2)

\* ((c / n) * 100).round(2) of numpy, in hundredths: multiply by 100, rint,
\* divide by 100
round2(c, n) == Nearest(c, n, IF IsTie(c, n) THEN float_scaled_err(c, n) ELSE 0)

\* f"{(c / n) * 100:.2f}" of Python, in hundredths: the decimal nearest to the
\* double, ties to even
format2f(c, n) == Nearest(c, n, IF IsTie(c, n) THEN float_percent(c, n).err ELSE 0)

(***************************************************************************)
(* check_missing_values(df)                                                 *)
(***************************************************************************)
\* df.isnull().sum() for one column
missing_data(col) == Len(SelectSeq(col, isnull))

\* (missing_data / len(df)) * 100, rounded to 2 decimals; 0/0 is NaN
missing_percentage(col) ==
    IF Len(col) = 0 THEN NaN ELSE round2(missing_data(col), Len(col))

\* variant: the rows without nulls are not filtered out
missing_summary_all(d) ==
    [i \in DOMAIN Columns |->
        [Coluna |-> Columns[i],
         Nulos |-> missing_data(d[Columns[i]]),
         Porcentagem |-> missing_percentage(d[Columns[i]])]]

\* one row per column of df, in column order; then the rows with
\* 'Valores Nulos' > 0 are kept
missing_summary(d) ==
    LET all == [i \in DOMAIN Columns |->
                   [Coluna |-> Columns[i],
                    Nulos |-> missing_data(d[Columns[i]]),
                    Porcentagem |-> missing_percentage(d[Columns[i]])]]
    IN  SelectSeq(all, LAMBDA row : row.Nulos > 0)

check_missing_values ==
    LET summary == missing_summary(df)
    IN  /\ out' = [ret |-> "None",
                   printed |-> IF summary = <<>> THEN "no_nulls" ELSE "summary",
                   rows |-> summary,
                   total |-> Len(summary)]
        /\ before' = df
        /\ prev' = Remediation(last)
        /\ last' = Call("check_missing_values", "", 0)
        /\ UNCHANGED df

(***************************************************************************)
(* check_outliers_column(df, column, factor)                                *)
(***************************************************************************)
\* max(0, x) of Python: 0 unless x > 0, so 0 for a NaN x
max0(x) == IF x # NaN /\ x > 0 THEN x ELSE 0

\* lower_bound = max(0, Q1 - factor * IQR), times 8; factor = factor2 / 2
check_lower_bound(col, factor2) ==
    LET Q1 == quantile4(col, 1)
        Q3 == quantile4(col, 3)
    IN  max0(IF Q1 = NaN THEN NaN ELSE 2 * Q1 - factor2 * (Q3 - Q1))

\* upper_bound = Q3 + factor * IQR, times 8
check_upper_bound(col, factor2) ==
    LET Q1 == quantile4(col, 1)
        Q3 == quantile4(col, 3)
    IN  IF Q1 = NaN THEN NaN ELSE 2 * Q3 + factor2 * (Q3 - Q1)

\* (v < lower) | (v > upper): false for a NaN v and against a NaN bound
outside(v, lower8, upper8) ==
    /\ ~isnull(v)
    /\ \/ lower8 # NaN /\ 8 * v < lower8
       \/ upper8 # NaN /\ 8 * v > upper8

\* df[(df[column] < lower_bound) | (df[column] > upper_bound)][column]
check_outliers(col, factor2) ==
    LET lower_bound == check_lower_bound(col, factor2)
        upper_bound == check_upper_bound(col, factor2)
    IN  SelectSeq(col, LAMBDA v : outside(v, lower_bound, upper_bound))

head(s, n) == SubSeq(s, 1, IF Len(s) < n THEN Len(s) ELSE n)

\* what the call prints and returns; the percentage as printed ({:.2f}), in
\* hundredths; 0 rows make num_outliers / total_rows raise ZeroDivisionError
check_outliers_result(col, factor2) ==
    LET outliers == check_outliers(col, factor2)
        total_rows == Len(col)
        num_outliers == Len(outliers)
    IN  IF total_rows = 0
        THEN [ret |-> "ZeroDivisionError", printed |-> "header"]
        ELSE IF num_outliers = 0
        THEN [ret |-> "None", printed |-> "no_outliers"]
        ELSE [ret |-> "None", printed |-> "summary",
              lower_bound |-> check_lower_bound(col, factor2),
              upper_bound |-> check_upper_bound(col, factor2),
              num_outliers |-> num_outliers,
              percentage_outliers |-> format2f(num_outliers, total_rows),
              first10 |-> head(outliers, 10)]

check_outliers_column(column, factor2) ==
    /\ column \in NumericColumns
    /\ out' = check_outliers_result(df[column], factor2)
    /\ before' = df
    /\ prev' = Remediation(last)
    /\ last' = Call("check_outliers_column", column, factor2)
    /\ UNCHANGED df

(***************************************************************************)
(* treat_missing_values_column_median(df, column)                           *)
(***************************************************************************)
\* variant: nulls filled with 0 instead of the median
treat_missing_zero(col) == fillna(col, Num(0))

\* variant: only the first null is filled (fillna with limit=1)
treat_missing_limit1(col) ==
    [i \in DOMAIN col |->
        IF isnull(col[i]) /\ ~isnull(median(col)) /\ (\A j \in 1..(i - 1) : ~isnull(col[j]))
        THEN median(col) ELSE col[i]]

treat_missing(col) == fillna(col, median(col))

treat_missing_values_column_median(column) ==
    /\ column \in NumericColumns
    /\ df' = [df EXCEPT ![column] = treat_missing(df[column])]
    /\ out' = [ret |-> "None", printed |-> "treated", median |-> median(df[column])]
    /\ before' = df
    /\ prev' = Remediation(last)
    /\ last' = Call("treat_missing_values_column_median", column, 0)

(***************************************************************************)
(* treat_outliers_column_median(df, column)                                 *)
(***************************************************************************)
\* variant: the lower bound clamped at zero, as check_outliers_column does
treat_lower_bound_clamped(col) == check_lower_bound(col, Factor15)

\* lower_bound = Q1 - 1.5 * IQR, times 8 (no clamp)
treat_lower_bound(col) ==
    LET Q1 == quantile4(col, 1)
        Q3 == quantile4(col, 3)
    IN  IF Q1 = NaN THEN NaN ELSE 2 * Q1 - Factor15 * (Q3 - Q1)

\* variant: factor 3 instead of 1.5
treat_upper_bound_wide(col) == check_upper_bound(col, 2 * Factor15)

\* upper_bound = Q3 + 1.5 * IQR, times 8
treat_upper_bound(col) ==
    LET Q1 == quantile4(col, 1)
        Q3 == quantile4(col, 3)
    IN  IF Q1 = NaN THEN NaN ELSE 2 * Q3 + Factor15 * (Q3 - Q1)

\* variant: only values above the upper bound are replaced
treat_outliers_upper_only(col) ==
    [i \in DOMAIN col |->
        IF outside(col[i], NaN, treat_upper_bound(col)) THEN median(col) ELSE col[i]]

\* np.where((col < lower) | (col > upper), median, col)
treat_outliers(col) ==
    LET lower == treat_lower_bound(col)
        upper == treat_upper_bound(col)
        m == median(col)
    IN  [i \in DOMAIN col |-> IF outside(col[i], lower, upper) THEN m ELSE col[i]]

treat_outliers_column_median(column) ==
    /\ column \in NumericColumns
    /\ df' = [df EXCEPT ![column] = treat_outliers(df[column])]
    /\ out' = [ret |-> "None", printed |-> "treated", median |-> median(df[column])]
    /\ before' = df
    /\ prev' = Remediation(last)
    /\ last' = Call("treat_outliers_column_median", column, 0)

(***************************************************************************)
(* create_frequency_table(df, column_name)                                  *)
(***************************************************************************)
\* the distinct non-null values, in order of first occurrence
RECURSIVE unique(_)
unique(s) ==
    IF s = <<>> THEN <<>>
    ELSE <<Head(s)>> \o unique(SelectSeq(Tail(s), LAMBDA x : x # Head(s)))

occurrences(col, v) == Cardinality({i \in DOMAIN col : col[i] = v})

\* all the orders of the rows of a set
RECURSIVE Orderings(_)
Orderings(rows) ==
    IF rows = {} THEN {<<>>}
    ELSE UNION {{<<row>> \o p : p \in Orderings(rows \ {row})} : row \in rows}

\* variant: the rows are left as they are
sort_values_unsorted(rows) == {rows}

\* sort_values(ascending=False) with the default kind='quicksort', which is
\* not a stable sort: the rows come in descending order of Contagem, and the
\* rows of equal Contagem in an order that depends on the numpy build and on
\* the number of rows.  The set of all the orders a build may give: the rows
\* of the highest count in any order, then the rest.
RECURSIVE sort_values(_)
sort_values(rows) ==
    IF rows = <<>> THEN {<<>>}
    ELSE LET top == CHOOSE c \in {rows[i].Contagem : i \in DOMAIN rows} :
                        \A i \in DOMAIN rows : rows[i].Contagem <= c
             ties == {rows[i] : i \in {j \in DOMAIN rows : rows[j].Contagem = top}}
             rest == SelectSeq(rows, LAMBDA row : row.Contagem < top)
         IN  {p \o q : p \in Orderings(ties), q \in sort_values(rest)}

\* value_counts(): NaN dropped, one row per distinct value, counted in order
\* of first occurrence and then sorted by sort_values(ascending=False); the
\* set of the orders it may return
value_counts(col) ==
    LET vals == unique(dropna(col))
    IN  sort_values([i \in DOMAIN vals |->
                        [value |-> vals[i], Contagem |-> occurrences(col, vals[i])]])

\* variant: the percentage truncated to 2 decimals instead of rounded
frequency_row_trunc(col, row) ==
    [value |-> row.value,
     Contagem |-> row.Contagem,
     Porcentagem |-> (10000 * row.Contagem) \div Len(dropna(col))]

\* value_counts(normalize=True).mul(100).round(2) of one value, joined to its
\* count by pd.concat (which matches the two on the value)
frequency_row(col, row) ==
    [value |-> row.value,
     Contagem |-> row.Contagem,
     Porcentagem |-> round2(row.Contagem, Len(dropna(col)))]

\* the tables the call may print: value_counts() sorts once, and line 159
\* sorts its result once more
frequency_table(col) ==
    UNION {sort_values([i \in DOMAIN counts |-> frequency_row(col, counts[i])]) :
              counts \in value_counts(col)}

create_frequency_table(column_name) ==
    /\ column_name \in ColumnSet
    /\ \E rows \in frequency_table(df[column_name]) :
          out' = [ret |-> "None", printed |-> "table", rows |-> rows]
    /\ before' = df
    /\ prev' = Remediation(last)
    /\ last' = Call("create_frequency_table", column_name, 0)
    /\ UNCHANGED df

(***************************************************************************)
(* The tables the calls are made on, and the calls.                         *)
(***************************************************************************)
Cells == {NaN} \cup {Num(v) : v \in Vals}

\* the second column: a label column (label 1 once, then the next labels
\* twice each), with or without a null in its first row
Labels(n, nulls) == [i \in 1..n |-> IF i <= nulls THEN NaN ELSE (i \div 2) + 1]

\* a label column of k labels in runs: label j fills 2j-1 rows (rows
\* (j-1)^2+1 to j^2) and the last label `extra` rows more, so no two labels
\* have the same count
Runs(k, extra) ==
    [i \in 1..(k * k + extra) |->
        IF i > k * k THEN k ELSE CHOOSE j \in 1..k : (j - 1) * (j - 1) < i /\ i <= j * j]

Start(table) ==
    /\ df = table
    /\ before = table
    /\ last = NoCall
    /\ prev = NoCall
    /\ out = [ret |-> "None", printed |-> "nothing"]

Init ==
    \E n \in 0..MaxRows :
        \E a \in [1..n -> Cells], nulls \in 0..1 :
            Start([A |-> a, B |-> Labels(n, nulls)])

InitFreq ==
    \E k \in 1..MaxFreqValues, extra \in 0..MaxFreqExtra :
        Start([A |-> [i \in 1..(k * k + extra) |-> Num(0)], B |-> Runs(k, extra)])

Next ==
    \/ check_missing_values
    \/ \E column \in ColumnSet, factor2 \in Factors2 : check_outliers_column(column, factor2)
    \/ \E column \in ColumnSet : treat_missing_values_column_median(column)
    \/ \E column \in ColumnSet : treat_outliers_column_median(column)
    \/ \E column_name \in LabelColumns : create_frequency_table(column_name)

Spec == Init /\ [][Next]_vars

\* create_frequency_table alone, on either column of tables whose label
\* column has up to MaxFreqValues labels of distinct counts (the orders of
\* equal counts are those of Spec)
NextFreq ==
    \E column_name \in ColumnSet : create_frequency_table(column_name)

SpecFreq == InitFreq /\ [][NextFreq]_vars

(***************************************************************************)
(* Vocabulary of the properties.  These definitions state what the claims   *)
(* say in terms of counting and order statistics; they use none of the      *)
(* operators that model the code.                                           *)
(***************************************************************************)
NonNullRows(col) == {i \in DOMAIN col : col[i] # NaN}

NullRows(col) == {i \in DOMAIN col : col[i] = NaN}

\* the j-th smallest non-null value of col (1 <= j <= number of non-null rows)
OrderStat(col, j) ==
    CHOOSE v \in {col[i] : i \in NonNullRows(col)} :
        /\ Cardinality({i \in NonNullRows(col) : col[i] < v}) < j
        /\ Cardinality({i \in NonNullRows(col) : col[i] <= v}) >= j

\* 4 times the k-th quartile by linear interpolation (col has a non-null row)
Quartile4(col, k) ==
    LET m == Cardinality(NonNullRows(col))
        lo == ((m - 1) * k) \div 4 + 1
        r == ((m - 1) * k) % 4
    IN  IF r = 0 THEN 4 * OrderStat(col, lo)
        ELSE (4 - r) * OrderStat(col, lo) + r * OrderStat(col, lo + 1)

\* 2 times the median of the non-null values (col has a non-null row)
Median2(col) ==
    LET m == Cardinality(NonNullRows(col))
    IN  OrderStat(col, (m + 1) \div 2) + OrderStat(col, m \div 2 + 1)

\* 8 times Q1 - (factor2/2) * IQR and 8 times Q3 + (factor2/2) * IQR
Lower8(col, factor2) ==
    2 * Quartile4(col, 1) - factor2 * (Quartile4(col, 3) - Quartile4(col, 1))

Upper8(col, factor2) ==
    2 * Quartile4(col, 3) + factor2 * (Quartile4(col, 3) - Quartile4(col, 1))

Max(a, b) == IF a >= b THEN a ELSE b

Abs(a) == IF a >= 0 THEN a ELSE -a

\* rows of col strictly outside [Q1 - f*IQR, Q3 + f*IQR], lower bound not clamped
OutsideRows(col, factor2) ==
    {i \in NonNullRows(col) :
        \/ 8 * col[i] < Lower8(col, factor2)
        \/ 8 * col[i] > Upper8(col, factor2)}

\* rows of col strictly outside [max(0, Q1 - f*IQR), Q3 + f*IQR]
OutsideRowsClamped(col, factor2) ==
    {i \in NonNullRows(col) :
        \/ 8 * col[i] < Max(0, Lower8(col, factor2))
        \/ 8 * col[i] > Upper8(col, factor2)}

\* rows of col strictly outside the audit bounds
\* [max(0, Q1 - f*IQR), Q3 + f*IQR] computed on the column ref
FlaggedAgainst(col, ref, factor2) ==
    {i \in NonNullRows(col) :
        \/ 8 * col[i] < Max(0, Lower8(ref, factor2))
        \/ 8 * col[i] > Upper8(ref, factor2)}

\* p hundredths is num/den * 100 rounded to 2 decimals
IsPercentage(p, num, den) == 2 * Abs(p * den - 10000 * num) <= den

OtherColumnsUnchanged(column) ==
    \A c \in ColumnSet \ {column} : df[c] = before[c]

TreatOutliers(column) == Call("treat_outliers_column_median", column, 0)

TreatMissing(column) == Call("treat_missing_values_column_median", column, 0)

RECURSIVE SumPorcentagem(_)
SumPorcentagem(rows) ==
    IF rows = <<>> THEN 0 ELSE Head(rows).Porcentagem + SumPorcentagem(Tail(rows))

DistinctValues(col) == {col[i] : i \in NonNullRows(col)}

FirstRow(col, v) == CHOOSE i \in DOMAIN col : col[i] = v /\ \A j \in 1..(i - 1) : col[j] # v

\* the frequency table lists every distinct value once, with its count, in
\* descending order of count
ListsCountsDescending(rows, col) ==
    /\ Len(rows) = Cardinality(DistinctValues(col))
    /\ \A v \in DistinctValues(col) :
          \E i \in DOMAIN rows :
              /\ rows[i].value = v
              /\ rows[i].Contagem = Cardinality({j \in DOMAIN col : col[j] = v})
    /\ \A i, j \in DOMAIN rows : i < j => rows[i].Contagem >= rows[j].Contagem

\* equal counts appear in the order in which their values first occur in col
TiesFirstSeen(rows, col) ==
    \A i, j \in DOMAIN rows :
        (i < j /\ rows[i].Contagem = rows[j].Contagem)
            => FirstRow(col, rows[i].value) < FirstRow(col, rows[j].value)

(***************************************************************************)
(* Properties.                                                              *)
(***************************************************************************)

\* C1: treat_outliers_column_median replaces exactly the values strictly
\* outside [Q1 - 1.5*IQR, Q3 + 1.5*IQR] (lower bound not clamped at zero,
\* quartiles by linear interpolation) with the median the column had before
\* the call; every other value, the row count and the other columns are
\* unchanged.
C1_OutliersReplacedByMedian ==
    last.op = "treat_outliers_column_median" =>
        LET old == before[last.column]
            new == df[last.column]
        IN  /\ Len(new) = Len(old)
            /\ OtherColumnsUnchanged(last.column)
            /\ \A i \in DOMAIN old :
                  IF i \in OutsideRows(old, Factor15)
                  THEN 2 * new[i] = Median2(old)
                  ELSE new[i] = old[i]

\* C1 witness: a call replaced an outlier and kept another value.
C1_Witness ==
    /\ last.op = "treat_outliers_column_median"
    /\ \E i, j \in DOMAIN df[last.column] :
          /\ df[last.column][i] # before[last.column][i]
          /\ before[last.column][j] # NaN
          /\ j \notin OutsideRows(before[last.column], Factor15)

\* C2 (as claimed): after one call of treat_outliers_column_median on a
\* column, auditing the remediated column against the bounds of
\* check_outliers_column computed on the original data with the same factor
\* ([max(0, Q1 - 1.5*IQR), Q3 + 1.5*IQR] of the column before the call)
\* flags no value.
C2_NoneFlaggedByOriginalAuditBounds ==
    (last.op = "treat_outliers_column_median"
        /\ NonNullRows(before[last.column]) # {})
        => FlaggedAgainst(df[last.column], before[last.column], Factor15) = {}

\* C2 (amended): after one call of treat_outliers_column_median no value of
\* the remediated column lies outside the unclamped bounds
\* [Q1 - 1.5*IQR, Q3 + 1.5*IQR] of the column before the call, and against
\* the audit bounds of the column before the call (lower bound clamped at
\* zero) exactly the negative values of the remediated column are flagged:
\* none when the column has no negative value.
C2_OnlyNegativesFlaggedByOriginalAuditBounds ==
    (last.op = "treat_outliers_column_median"
        /\ NonNullRows(before[last.column]) # {})
        => /\ \A i \in NonNullRows(df[last.column]) :
                 /\ 8 * df[last.column][i] >= Lower8(before[last.column], Factor15)
                 /\ 8 * df[last.column][i] <= Upper8(before[last.column], Factor15)
           /\ FlaggedAgainst(df[last.column], before[last.column], Factor15)
                 = {i \in NonNullRows(df[last.column]) : df[last.column][i] < 0}

\* C2 witness: the call replaced an outlier and left a negative value, which
\* the audit bounds of the original column flag.
C2_Witness ==
    /\ last.op = "treat_outliers_column_median"
    /\ OutsideRows(before[last.column], Factor15) # {}
    /\ df # before
    /\ FlaggedAgainst(df[last.column], before[last.column], Factor15) # {}

\* Not part of C2, which fixes the bounds: check_outliers_column takes no
\* bounds and recomputes them from the column it is given, so a call of it
\* with factor 1.5 right after treat_outliers_column_median can report
\* outliers even on a column without negative values (this formula is
\* violated).
RecomputedAuditAfterTreatFindsNone ==
    (/\ last.op = "check_outliers_column"
     /\ last.factor2 = Factor15
     /\ prev = TreatOutliers(last.column)
     /\ Len(df[last.column]) > 0
     /\ \A i \in NonNullRows(df[last.column]) : df[last.column][i] >= 0)
        => out.printed = "no_outliers"

\* C3 (as claimed): a second call of treat_outliers_column_median right
\* after a first one on the same column changes nothing.
C3_SecondTreatIsNoOp ==
    (last.op = "treat_outliers_column_median" /\ prev = last) => df = before

\* C3 (amended): a second call of treat_outliers_column_median right after
\* a first one changes nothing exactly when no value of the once-remediated
\* column lies outside the bounds recomputed from that column; otherwise it
\* replaces those values.
C3_SecondTreatNoOpIffNoneOutside ==
    (last.op = "treat_outliers_column_median" /\ prev = last) =>
        (df = before <=> OutsideRows(before[last.column], Factor15) = {})

\* C3 witness: a second call in succession changed the column again.
C3_Witness ==
    /\ last.op = "treat_outliers_column_median"
    /\ prev = last
    /\ df # before

\* C4: on a non-empty table check_outliers_column flags exactly the values
\* v < max(0, Q1 - factor*IQR) or v > Q3 + factor*IQR, reports their count
\* and count/total_rows*100, returns the empty sentinel None if and only if
\* no value is flagged, and leaves the table unchanged.
C4_AuditReportsAndReturns ==
    (last.op = "check_outliers_column" /\ Len(df[last.column]) > 0) =>
        LET col == before[last.column]
            flagged == IF NonNullRows(col) = {} THEN {}
                       ELSE OutsideRowsClamped(col, last.factor2)
        IN  /\ df = before
            /\ (out.ret = "None" <=> flagged = {})
            /\ flagged = {} => out.printed = "no_outliers"
            /\ flagged # {} =>
                  /\ out.printed = "summary"
                  /\ out.num_outliers = Cardinality(flagged)
                  /\ IsPercentage(out.percentage_outliers, Cardinality(flagged), Len(col))

\* C5: on a column with a non-null value treat_missing_values_column_median
\* leaves no null: every null entry becomes the median of the entries that
\* were non-null, every other entry, the row count and the other columns
\* are unchanged.
C5_NullsFilledWithMedian ==
    (last.op = "treat_missing_values_column_median"
        /\ NonNullRows(before[last.column]) # {}) =>
        LET old == before[last.column]
            new == df[last.column]
        IN  /\ Len(new) = Len(old)
            /\ OtherColumnsUnchanged(last.column)
            /\ NullRows(new) = {}
            /\ \A i \in NullRows(old) : 2 * new[i] = Median2(old)
            /\ \A i \in NonNullRows(old) : new[i] = old[i]

\* C5 witness: a call filled a null of a column that also had values.
C5_Witness ==
    /\ last.op = "treat_missing_values_column_median"
    /\ NullRows(before[last.column]) # {}
    /\ Cardinality(DistinctValues(before[last.column])) >= 2

\* C6: treat_missing_values_column_median applied twice in succession to a
\* column leaves the table as the first call left it.
C6_SecondFillIsNoOp ==
    (last.op = "treat_missing_values_column_median" /\ prev = last) => df = before

\* C6 witness: two calls in succession on a column holding a filled-in
\* median that no input cell holds.
C6_Witness ==
    /\ last.op = "treat_missing_values_column_median"
    /\ prev = last
    /\ \E i \in DOMAIN df[last.column] : df[last.column][i] \notin Cells

\* C7: the summary of check_missing_values holds exactly the columns with a
\* null, each with its null count and nulls/rows*100 rounded to 2 decimals;
\* the reported total is the number of such columns; a table without nulls
\* gives an empty summary and no error.
C7_MissingSummary ==
    last.op = "check_missing_values" =>
        LET affected == {c \in ColumnSet : NullRows(df[c]) # {}}
        IN  /\ df = before
            /\ out.ret = "None"
            /\ out.total = Cardinality(affected)
            /\ Len(out.rows) = Cardinality(affected)
            /\ {out.rows[i].Coluna : i \in DOMAIN out.rows} = affected
            /\ \A i \in DOMAIN out.rows :
                  LET col == df[out.rows[i].Coluna]
                  IN  /\ out.rows[i].Nulos = Cardinality(NullRows(col))
                      /\ IsPercentage(out.rows[i].Porcentagem,
                                      Cardinality(NullRows(col)), Len(col))

\* C7 witness: one column has nulls in part of its rows, the other has none.
C7_Witness ==
    /\ last.op = "check_missing_values"
    /\ Len(out.rows) = 1
    /\ out.rows[1].Porcentagem \notin {0, 10000}

\* C8 (as claimed): on a column without nulls the percentages of
\* create_frequency_table sum to within 0.1 of 100.
C8_PercentagesSumTo100 ==
    (last.op = "create_frequency_table"
        /\ Len(df[last.column]) > 0 /\ NullRows(df[last.column]) = {})
        => Abs(SumPorcentagem(out.rows) - 10000) <= 10

\* C8 (amended): on a non-empty column without nulls the percentages sum to
\* within 0.005 times the number of distinct values of 100 (so within 0.1
\* when there are at most 20 distinct values).
C8_PercentagesSumWithinRounding ==
    (last.op = "create_frequency_table"
        /\ Len(df[last.column]) > 0 /\ NullRows(df[last.column]) = {})
        => 2 * Abs(SumPorcentagem(out.rows) - 10000)
              <= Cardinality(DistinctValues(df[last.column]))

\* C8 witness: a table of more than 20 distinct values whose rounded
\* percentages do not sum to exactly 100.
C8_Witness ==
    /\ last.op = "create_frequency_table"
    /\ NullRows(df[last.column]) = {}
    /\ Len(out.rows) > 20
    /\ SumPorcentagem(out.rows) # 10000

\* C9 (as claimed): create_frequency_table lists every distinct value once
\* with its count, in descending order of count, equal counts in the order
\* in which their values first occur; the table is not changed.
C9_StableFrequencyOrder ==
    last.op = "create_frequency_table" =>
        /\ df = before
        /\ ListsCountsDescending(out.rows, df[last.column])
        /\ TiesFirstSeen(out.rows, df[last.column])

\* C9 (amended): create_frequency_table lists every distinct value once
\* with its count, in descending order of count; the table is not changed.
\* The order among equal counts is not fixed.
C9_FrequencyOrder ==
    last.op = "create_frequency_table" =>
        /\ df = before
        /\ ListsCountsDescending(out.rows, df[last.column])

\* C9 witness: a table with two values of equal count below a more
\* frequent one.
C9_Witness ==
    /\ last.op = "create_frequency_table"
    /\ \E i, j, k \in DOMAIN out.rows :
          /\ i < j /\ j < k
          /\ out.rows[i].Contagem > out.rows[j].Contagem
          /\ out.rows[j].Contagem = out.rows[k].Contagem

\* C10: on a column without any non-null value
\* treat_missing_values_column_median fails with InsufficientDataError and
\* leaves the table unchanged.
C10_AllNullRaises ==
    (last.op = "treat_missing_values_column_median"
        /\ NonNullRows(before[last.column]) = {})
        => (out.ret = "InsufficientDataError" /\ df = before)

(***************************************************************************)
(* Sanity of the number representation: every median the calls can compute  *)
(* is a multiple of 1/Scale.                                                *)
(***************************************************************************)
MediansRepresentable ==
    \A c \in NumericColumns :
        NonNullRows(df[c]) # {} => Median2(df[c]) % 2 = 0

====
